---- MODULE Spec2Model ----
(***************************************************************************)
(* Model of src/src/reporters/Reporter.ts: the Reporter class that        *)
(* aggregates the host engine's events into the session registry, the     *)
(* error ledger and the coverage collector, and that prints the run       *)
(* summary and writes the coverage report at runEnd.                      *)
(***************************************************************************)
EXTENDS Integers, Sequences, FiniteSets, Bags, TLC

(***************************************************************************)
(* Bounds of the model.                                                    *)
(***************************************************************************)
\* testFail events delivered in one behaviour
MaxFails == 3
\* coverage() calls that reach the collector in one behaviour
MaxCoverage == 2
\* runEnd invocations in one behaviour
MaxRunEnd == 2

(***************************************************************************)
(* The values the host engine and the file system can hand to the         *)
(* reporter.                                                               *)
(***************************************************************************)
DEFAULT_COVERAGE_FILENAME == "coverage-final.json"
OtherFilename == "out.json"
Filenames == {DEFAULT_COVERAGE_FILENAME, OtherFilename}
Modes == {"client", "runner"}
SessionIds == {"", "A", "B"}

\* Instrumented files, in the order the report lists them.
FileOrder == <<"X", "Y">>
Files == {FileOrder[i] : i \in DOMAIN FileOrder}

NoCoverage == [f \in {} |-> 0]
\* Coverage objects delivered by sessions: file path -> hit count.
Snapshots == {"X" :> 3, "X" :> 1 @@ "Y" :> 2}

\* The suite objects of the host.  Each has a fixed sessionId and parent;
\* its counters live in the variable suites.
NoParent == "none"
SuiteIds == {"s0", "sA", "sA2", "sB", "nA"}
SuiteSessionId(s) == CASE s = "s0" -> ""
                       [] s \in {"sA", "sA2", "nA"} -> "A"
                       [] OTHER -> "B"
SuiteParent(s) == IF s = "nA" THEN "sA" ELSE NoParent
SuiteName(s) == IF s = "nA" THEN "nested" ELSE "main"
RootSuites == {s \in SuiteIds : SuiteParent(s) = NoParent}

\* Counter values <<numTests, numFailedTests, numSkippedTests>> the host
\* computes for a suite.
ZeroCounters == [numTests |-> 0, numFailedTests |-> 0, numSkippedTests |-> 0]
TenOneZero == [numTests |-> 10, numFailedTests |-> 1, numSkippedTests |-> 0]
FiveZeroTwo == [numTests |-> 5, numFailedTests |-> 0, numSkippedTests |-> 2]
CounterValues == {ZeroCounters, TenOneZero, FiveZeroTwo}

\* The error/tests part of a suite object as suiteEnd finds it: a test has
\* no tests property (hasTests is FALSE), a suite has an array of tests and
\* nested suites.  error tells whether the node carries an error object.
TestNode(e) == [error |-> e, hasTests |-> FALSE, tests |-> <<>>]
SuiteNode(e, ts) == [error |-> e, hasTests |-> TRUE, tests |-> ts]
SuiteTrees == {SuiteNode(e0, <<>>) : e0 \in BOOLEAN}
    \cup {SuiteNode(e0, <<TestNode(e1), SuiteNode(e2, <<TestNode(e3)>>)>>) :
            e0 \in BOOLEAN, e1 \in BOOLEAN, e2 \in BOOLEAN, e3 \in BOOLEAN}

\* Failed tests the host reports.
TestIds == {"t1", "t2"}
TestErrors == {[name |-> "AssertionError", message |-> "boom"]}
TimesElapsed == {1500}
FailedTests == [sessionId : {"A", "B"}, id : TestIds,
                timeElapsed : TimesElapsed, error : TestErrors]

\* A file of the file system.  entries is the parsed-out text of a well
\* formed report: the <<path, count>> pairs in the order they are written.
AbsentFile == [exists |-> FALSE, readable |-> FALSE, wellFormed |-> FALSE, entries |-> <<>>]
UnreadableFile == [exists |-> TRUE, readable |-> FALSE, wellFormed |-> TRUE, entries |-> <<>>]
MalformedFile == [exists |-> TRUE, readable |-> TRUE, wellFormed |-> FALSE, entries |-> <<>>]
ReportFile(es) == [exists |-> TRUE, readable |-> TRUE, wellFormed |-> TRUE, entries |-> es]

VARIABLES
    mode,        \* this._mode
    filename,    \* this._filename
    hasErrors,   \* this.hasErrors (inherited from Runner)
    sessions,    \* this.sessions: sessionId -> [suite, coverage]
    errors,      \* this._errors: ordered map sessionId -> list of entries
    collector,   \* this._collector: file path -> hit count
    disk,        \* the file system: path -> file
    suites,      \* the host's root suite objects: suite -> counters
    trace,       \* what the last handler printed, read and wrote, in order
    last,        \* the last step: [op, arg, thrown]
    failLog,     \* history: the testFail events delivered, in order
    accepted,    \* history: bag of snapshots coverage() merged
    folded,      \* history: bag of file contents runEnd merged
    disk0,       \* history: the file system before the run
    runEnds,     \* history: number of runEnd invocations
    hist         \* history, kept by SpecActive only: the sessions whose root
                 \* suite ended, and each session's root suite with the
                 \* counters it had at suiteStart

vars == <<mode, filename, hasErrors, sessions, errors, collector, disk, suites,
          trace, last, failLog, accepted, folded, disk0, runEnds, hist>>

(***************************************************************************)
(* Library operations the reporter calls.                                  *)
(***************************************************************************)
\* Collector.add(coverage): per file, counts are added to those the store
\* already holds; a file the store does not hold yet is stored as given.
CollectorAdd(store, cov) ==
    [f \in (DOMAIN store) \cup (DOMAIN cov) |->
        IF f \in DOMAIN store /\ f \in DOMAIN cov THEN store[f] + cov[f]
        ELSE IF f \in DOMAIN cov THEN cov[f]
        ELSE store[f]]

\* JsonReporter.writeReport: one <<path, count>> entry per file of the
\* collector, in report order.
RECURSIVE SerializeFrom(_, _)
SerializeFrom(store, i) ==
    IF i > Len(FileOrder) THEN <<>>
    ELSE IF FileOrder[i] \in DOMAIN store
         THEN <<(<<FileOrder[i], store[FileOrder[i]]>>)>> \o SerializeFrom(store, i + 1)
         ELSE SerializeFrom(store, i + 1)
Serialize(store) == SerializeFrom(store, 1)

\* JSON.parse of a well formed report: the object its entries denote.
ParseReport(entries) ==
    [f \in {entries[i][1] : i \in DOMAIN entries} |->
        (CHOOSE e \in {entries[i] : i \in DOMAIN entries} : e[1] = f)[2]]

\* util.getErrorMessage(error)
getErrorMessage(e) == e.name \o ": " \o e.message

(***************************************************************************)
(* The file system calls of _writeCoverage.                                *)
(***************************************************************************)
\* accessSync(DEFAULT_COVERAGE_FILENAME, R_OK) inside try/catch
checkCoverageFinal(d) ==
    d[DEFAULT_COVERAGE_FILENAME].exists /\ d[DEFAULT_COVERAGE_FILENAME].readable

\* readFileSync(path) followed by JSON.parse: the error thrown, or "none"
ReadError(d, path) ==
    IF ~d[path].exists THEN "ENOENT"
    ELSE IF ~d[path].readable THEN "EACCES"
    ELSE IF ~d[path].wellFormed THEN "SyntaxError"
    ELSE "none"

\* this.reporter.writeReport(collector, true): the file at the configured
\* path is replaced by the report; a new file is created readable.
WriteReport(d, path, store) ==
    [d EXCEPT ![path] = [exists |-> TRUE,
                         readable |-> IF d[path].exists THEN d[path].readable ELSE TRUE,
                         wellFormed |-> TRUE,
                         entries |-> Serialize(store)]]

IoAccess == [kind |-> "access", path |-> DEFAULT_COVERAGE_FILENAME]
IoRead(path) == [kind |-> "read", path |-> path]
IoWrite(path) == [kind |-> "write", path |-> path]

\* _writeCoverage(): the collector and file system it leaves, the file
\* system calls it made, and the error it threw, if any.
WriteCoverage(store, d, path) ==
    IF checkCoverageFinal(d)
    THEN IF ReadError(d, path) # "none"
         THEN [thrown |-> ReadError(d, path), collector |-> store, disk |-> d,
               read |-> NoCoverage, didRead |-> FALSE,
               io |-> <<IoAccess, IoRead(path)>>]
         ELSE LET prior == ParseReport(d[path].entries)
                  merged == CollectorAdd(store, prior)
              IN [thrown |-> "none", collector |-> merged,
                  disk |-> WriteReport(d, path, merged),
                  read |-> prior, didRead |-> TRUE,
                  io |-> <<IoAccess, IoRead(path), IoWrite(path)>>]
    ELSE [thrown |-> "none", collector |-> store,
          disk |-> WriteReport(d, path, store),
          read |-> NoCoverage, didRead |-> FALSE,
          io |-> <<IoAccess, IoWrite(path)>>]

(***************************************************************************)
(* The error ledger: a JavaScript object, an ordered map from sessionId   *)
(* to the list of entries, keys in insertion order.                        *)
(***************************************************************************)
LedgerKeys(led) == {led[i].key : i \in DOMAIN led}
LedgerList(led, sid) ==
    IF sid \in LedgerKeys(led)
    THEN led[CHOOSE i \in DOMAIN led : led[i].key = sid].list
    ELSE <<>>
\* LedgerPush that skips a test id the session's list already holds
LedgerPushOncePerId(led, sid, e) ==
    IF \E i \in DOMAIN LedgerList(led, sid) : LedgerList(led, sid)[i].id = e.id
    THEN led
    ELSE LET withKey == IF sid \in LedgerKeys(led) THEN led
                        ELSE Append(led, [key |-> sid, list |-> <<>>])
         IN [i \in DOMAIN withKey |->
                IF withKey[i].key = sid
                THEN [withKey[i] EXCEPT !.list = Append(@, e)]
                ELSE withKey[i]]

\* if (!this._errors[sid]) this._errors[sid] = []; this._errors[sid].push(e)
LedgerPush(led, sid, e) ==
    LET withKey == IF sid \in LedgerKeys(led) THEN led
                   ELSE Append(led, [key |-> sid, list |-> <<>>])
    IN [i \in DOMAIN withKey |->
           IF withKey[i].key = sid
           THEN [withKey[i] EXCEPT !.list = Append(@, e)]
           ELSE withKey[i]]

\* The entry testFail stores for a test.
LedgerEntry(test) ==
    [id |-> test.id, timeElapsed |-> test.timeElapsed,
     error |-> getErrorMessage(test.error)]

(***************************************************************************)
(* suiteEnd's recursive error check.  Its result is a JavaScript value:   *)
(* the error object of the first suite found carrying one ("Error"), or   *)
(* the boolean some() returned ("true", "false").                          *)
(***************************************************************************)
Truthy(v) == v # "false"
\* v > 0: true converts to 1, an error object to NaN
GreaterThanZero(v) == v = "true"

\* hasError that also returns the error a test carries
RECURSIVE hasErrorOfAnyNode(_)
hasErrorOfAnyNode(suite) ==
    IF suite.error THEN "Error"
    ELSE IF \E i \in DOMAIN suite.tests : Truthy(hasErrorOfAnyNode(suite.tests[i]))
         THEN "true" ELSE "false"

RECURSIVE hasError(_)
hasError(suite) ==
    IF suite.hasTests
    THEN IF suite.error THEN "Error"
         ELSE IF \E i \in DOMAIN suite.tests : Truthy(hasError(suite.tests[i]))
              THEN "true" ELSE "false"
    ELSE "false"

(***************************************************************************)
(* What the handlers print: a line is the colour it is printed in and the *)
(* fragments its text is concatenated from.                                *)
(***************************************************************************)
Line(kind, color, parts) == [kind |-> kind, color |-> color, parts |-> parts]
FatalSuffix == "; fatal error occurred"

\* test.timeElapsed / 1000, as whole seconds and thousandths
Seconds(ms) == <<ms \div 1000, ms % 1000>>

\* SumSessions with = in place of += for the three test counters
RECURSIVE SumSessionsAssign(_, _, _)
SumSessionsAssign(reg, heap, keys) ==
    IF keys = {}
    THEN [numEnvironments |-> 0, numTests |-> 0,
          numFailedTests |-> 0, numSkippedTests |-> 0]
    ELSE LET sessionId == CHOOSE k \in keys : TRUE
             session == reg[sessionId]
             t == SumSessionsAssign(reg, heap, keys \ {sessionId})
         IN [numEnvironments |-> t.numEnvironments + 1,
             numTests |-> heap[session.suite].numTests,
             numFailedTests |-> heap[session.suite].numFailedTests,
             numSkippedTests |-> heap[session.suite].numSkippedTests]

\* SumSessions over the counters each suite had when it was registered
RECURSIVE SumSessionsAtStart(_, _, _)
SumSessionsAtStart(reg, heap, keys) ==
    IF keys = {}
    THEN [numEnvironments |-> 0, numTests |-> 0,
          numFailedTests |-> 0, numSkippedTests |-> 0]
    ELSE LET sessionId == CHOOSE k \in keys : TRUE
             c == IF sessionId \in DOMAIN hist.atStart
                  THEN hist.atStart[sessionId].counters
                  ELSE heap[reg[sessionId].suite]
             t == SumSessionsAtStart(reg, heap, keys \ {sessionId})
         IN [numEnvironments |-> t.numEnvironments + 1,
             numTests |-> t.numTests + c.numTests,
             numFailedTests |-> t.numFailedTests + c.numFailedTests,
             numSkippedTests |-> t.numSkippedTests + c.numSkippedTests]

\* runEnd's loop over this.sessions
RECURSIVE SumSessions(_, _, _)
SumSessions(reg, heap, keys) ==
    IF keys = {}
    THEN [numEnvironments |-> 0, numTests |-> 0,
          numFailedTests |-> 0, numSkippedTests |-> 0]
    ELSE LET sessionId == CHOOSE k \in keys : TRUE
             session == reg[sessionId]
             t == SumSessions(reg, heap, keys \ {sessionId})
         IN [numEnvironments |-> t.numEnvironments + 1,
             numTests |-> t.numTests + heap[session.suite].numTests,
             numFailedTests |-> t.numFailedTests + heap[session.suite].numFailedTests,
             numSkippedTests |-> t.numSkippedTests + heap[session.suite].numSkippedTests]

\* runEnd's loop over this._errors: one line per entry, session by session
RECURSIVE ErrorLines(_, _)
ErrorLines(led, i) ==
    IF i > Len(led) THEN <<>>
    ELSE [j \in DOMAIN led[i].list |->
             [kind |-> "error", color |-> "red", sid |-> led[i].key,
              parts |-> <<"x ", led[i].list[j].id, " (",
                          Seconds(led[i].list[j].timeElapsed), "s)",
                          led[i].list[j].error>>]]
         \o ErrorLines(led, i + 1)

\* TotalLine without the !numFailedTests condition on the suffix
TotalLineSuffixWheneverFatal(t, fatal) ==
    Line("total",
         IF t.numFailedTests > 0 \/ fatal THEN "red" ELSE "green",
         <<"TOTAL", ": tested ", ToString(t.numEnvironments), " platforms, ",
           ToString(t.numFailedTests), "/", ToString(t.numTests), " failed">>
         \o (IF t.numSkippedTests # 0
             THEN <<" (", ToString(t.numSkippedTests), " skipped)">> ELSE <<>>)
         \o (IF fatal THEN <<FatalSuffix>> ELSE <<>>))

\* TotalLine coloured by the failed count alone
TotalLineColourByFailures(t, fatal) ==
    Line("total",
         IF t.numFailedTests > 0 THEN "red" ELSE "green",
         <<"TOTAL", ": tested ", ToString(t.numEnvironments), " platforms, ",
           ToString(t.numFailedTests), "/", ToString(t.numTests), " failed">>
         \o (IF t.numSkippedTests # 0
             THEN <<" (", ToString(t.numSkippedTests), " skipped)">> ELSE <<>>)
         \o (IF fatal /\ t.numFailedTests = 0 THEN <<FatalSuffix>> ELSE <<>>))

\* runEnd's TOTAL line
TotalLine(t, fatal) ==
    Line("total",
         IF t.numFailedTests > 0 \/ fatal THEN "red" ELSE "green",
         <<"TOTAL", ": tested ", ToString(t.numEnvironments), " platforms, ",
           ToString(t.numFailedTests), "/", ToString(t.numTests), " failed">>
         \o (IF t.numSkippedTests # 0
             THEN <<" (", ToString(t.numSkippedTests), " skipped)">> ELSE <<>>)
         \o (IF fatal /\ t.numFailedTests = 0 THEN <<FatalSuffix>> ELSE <<>>))

\* RunEndTrace with _writeCoverage() called before the printing
RunEndTraceWriteFirst(t, led, fatal, io) ==
    io
    \o <<Line("blank", "none", <<>>)>>
    \o (IF t.numFailedTests > 0
        THEN <<Line("header", "red", <<"Reported Test Errors:">>)>> ELSE <<>>)
    \o ErrorLines(led, 1)
    \o <<TotalLine(t, fatal)>>

\* RunEndTrace with the loop over this._errors inside the header's condition
RunEndTraceEntriesUnderHeader(t, led, fatal, io) ==
    <<Line("blank", "none", <<>>)>>
    \o (IF t.numFailedTests > 0
        THEN <<Line("header", "red", <<"Reported Test Errors:">>)>> \o ErrorLines(led, 1)
        ELSE <<>>)
    \o <<TotalLine(t, fatal)>>
    \o io

\* What runEnd prints and the file system calls it makes, in order: io is
\* what _writeCoverage() does, called last.
RunEndTrace(t, led, fatal, io) ==
    <<Line("blank", "none", <<>>)>>
    \o (IF t.numFailedTests > 0
        THEN <<Line("header", "red", <<"Reported Test Errors:">>)>> ELSE <<>>)
    \o ErrorLines(led, 1)
    \o <<TotalLine(t, fatal)>>
    \o io

\* suiteEnd's summary line
SummaryLine(name, c, err) ==
    Line("summary",
         IF c.numFailedTests # 0 \/ GreaterThanZero(err) THEN "red" ELSE "green",
         <<name, ": ", ToString(c.numFailedTests), "/", ToString(c.numTests),
           " tests failed">>
         \o (IF c.numSkippedTests # 0
             THEN <<" (", ToString(c.numSkippedTests), " skipped)">> ELSE <<>>)
         \o (IF Truthy(err) THEN <<FatalSuffix>> ELSE <<>>))

(***************************************************************************)
(* The state after construction.                                           *)
(***************************************************************************)
\* What the file system may hold before the run.
DefaultFiles0 == {AbsentFile, UnreadableFile, MalformedFile, ReportFile(<<(<<"X", 5>>)>>)}
OtherFiles0 == {AbsentFile, ReportFile(<<(<<"Y", 1>>)>>)}

Step(op, arg, thrown) == [op |-> op, arg |-> arg, thrown |-> thrown]

InitWith(modes, filenames, defaultFiles, otherFiles) ==
    /\ mode \in modes
    /\ filename \in filenames
    /\ hasErrors = FALSE
    /\ sessions = [k \in {} |-> 0]
    /\ errors = <<>>
    /\ collector = NoCoverage
    /\ disk \in {f \in [Filenames -> defaultFiles \cup otherFiles] :
                    /\ f[DEFAULT_COVERAGE_FILENAME] \in defaultFiles
                    /\ f[OtherFilename] \in otherFiles}
    /\ suites = [s \in RootSuites |-> ZeroCounters]
    /\ trace = <<>>
    /\ last = Step("new", "", "none")
    /\ failLog = <<>>
    /\ accepted = EmptyBag
    /\ folded = EmptyBag
    /\ disk0 = disk
    /\ runEnds = 0
    /\ hist = [ended |-> {}, atStart |-> <<>>]

(***************************************************************************)
(* The event handlers.                                                     *)
(***************************************************************************)
\* coverage without the test of the mode and the sessionId
coverageUnconditional(sessionId, cov) ==
    /\ BagCardinality(accepted) < MaxCoverage
    /\ IF sessionId \in DOMAIN sessions
       THEN /\ sessions' = [sessions EXCEPT ![sessionId].coverage = TRUE]
            /\ collector' = CollectorAdd(collector, cov)
            /\ accepted' = accepted (+) SetToBag({cov})
            /\ last' = Step("coverage", [sessionId |-> sessionId, coverage |-> cov], "none")
       ELSE /\ last' = Step("coverage", [sessionId |-> sessionId, coverage |-> cov], "TypeError")
            /\ UNCHANGED <<sessions, collector, accepted>>
    /\ trace' = <<>>
    /\ UNCHANGED <<mode, filename, hasErrors, errors, disk, suites, failLog,
                   folded, disk0, runEnds>>

\* coverage that merges only the first snapshot of a session
coverageOncePerSession(sessionId, cov) ==
    /\ BagCardinality(accepted) < MaxCoverage
    /\ IF mode = "client" \/ sessionId # ""
       THEN /\ IF sessionId \in DOMAIN sessions
               THEN /\ sessions' = [sessions EXCEPT ![sessionId].coverage = TRUE]
                    /\ collector' = IF sessions[sessionId].coverage THEN collector
                                    ELSE CollectorAdd(collector, cov)
                    /\ accepted' = accepted (+) SetToBag({cov})
                    /\ last' = Step("coverage", [sessionId |-> sessionId, coverage |-> cov], "none")
               ELSE /\ last' = Step("coverage", [sessionId |-> sessionId, coverage |-> cov], "TypeError")
                    /\ UNCHANGED <<sessions, collector, accepted>>
       ELSE /\ last' = Step("coverage", [sessionId |-> sessionId, coverage |-> cov], "none")
            /\ UNCHANGED <<sessions, collector, accepted>>
    /\ trace' = <<>>
    /\ UNCHANGED <<mode, filename, hasErrors, errors, disk, suites, failLog,
                   folded, disk0, runEnds>>

\* coverage without the assignment session.coverage = true
coverageWithoutFlag(sessionId, cov) ==
    /\ BagCardinality(accepted) < MaxCoverage
    /\ IF mode = "client" \/ sessionId # ""
       THEN /\ IF sessionId \in DOMAIN sessions
               THEN /\ collector' = CollectorAdd(collector, cov)
                    /\ accepted' = accepted (+) SetToBag({cov})
                    /\ last' = Step("coverage", [sessionId |-> sessionId, coverage |-> cov], "none")
                    /\ UNCHANGED sessions
               ELSE /\ last' = Step("coverage", [sessionId |-> sessionId, coverage |-> cov], "TypeError")
                    /\ UNCHANGED <<sessions, collector, accepted>>
       ELSE /\ last' = Step("coverage", [sessionId |-> sessionId, coverage |-> cov], "none")
            /\ UNCHANGED <<sessions, collector, accepted>>
    /\ trace' = <<>>
    /\ UNCHANGED <<mode, filename, hasErrors, errors, disk, suites, failLog,
                   folded, disk0, runEnds>>

\* coverage with this._collector.add(coverage) moved before the session lookup
coverageMergeFirst(sessionId, cov) ==
    /\ BagCardinality(accepted) < MaxCoverage
    /\ IF mode = "client" \/ sessionId # ""
       THEN /\ collector' = CollectorAdd(collector, cov)
            /\ accepted' = accepted (+) SetToBag({cov})
            /\ IF sessionId \in DOMAIN sessions
               THEN /\ sessions' = [sessions EXCEPT ![sessionId].coverage = TRUE]
                    /\ last' = Step("coverage", [sessionId |-> sessionId, coverage |-> cov], "none")
               ELSE /\ last' = Step("coverage", [sessionId |-> sessionId, coverage |-> cov], "TypeError")
                    /\ UNCHANGED sessions
       ELSE /\ last' = Step("coverage", [sessionId |-> sessionId, coverage |-> cov], "none")
            /\ UNCHANGED <<sessions, collector, accepted>>
    /\ trace' = <<>>
    /\ UNCHANGED <<mode, filename, hasErrors, errors, disk, suites, failLog,
                   folded, disk0, runEnds>>

coverage(sessionId, cov) ==
    /\ BagCardinality(accepted) < MaxCoverage
    /\ IF mode = "client" \/ sessionId # ""
       THEN /\ IF sessionId \in DOMAIN sessions
               THEN /\ sessions' = [sessions EXCEPT ![sessionId].coverage = TRUE]
                    /\ collector' = CollectorAdd(collector, cov)
                    /\ accepted' = accepted (+) SetToBag({cov})
                    /\ last' = Step("coverage", [sessionId |-> sessionId, coverage |-> cov], "none")
               ELSE \* session is undefined: session.coverage = true throws
                    /\ last' = Step("coverage", [sessionId |-> sessionId, coverage |-> cov], "TypeError")
                    /\ UNCHANGED <<sessions, collector, accepted>>
       ELSE /\ last' = Step("coverage", [sessionId |-> sessionId, coverage |-> cov], "none")
            /\ UNCHANGED <<sessions, collector, accepted>>
    /\ trace' = <<>>
    /\ UNCHANGED <<mode, filename, hasErrors, errors, disk, suites, failLog,
                   folded, disk0, runEnds>>

runEnd ==
    /\ runEnds < MaxRunEnd
    /\ LET t == SumSessions(sessions, suites, DOMAIN sessions)
           w == WriteCoverage(collector, disk, filename)
       IN /\ trace' = RunEndTrace(t, errors, hasErrors, w.io)
          /\ collector' = w.collector
          /\ disk' = w.disk
          /\ folded' = IF w.didRead THEN folded (+) SetToBag({w.read}) ELSE folded
          /\ last' = Step("runEnd", "", w.thrown)
    /\ runEnds' = runEnds + 1
    /\ UNCHANGED <<mode, filename, hasErrors, sessions, errors, suites, failLog,
                   accepted, disk0>>

\* suiteStart that keeps the entry of a session already registered
suiteStartKeepsFirst(suite) ==
    /\ IF SuiteParent(suite) = NoParent
       THEN /\ sessions' = [k \in (DOMAIN sessions) \cup {SuiteSessionId(suite)} |->
                               IF k \in DOMAIN sessions
                               THEN sessions[k]
                               ELSE [suite |-> suite, coverage |-> FALSE]]
            /\ trace' = IF SuiteSessionId(suite) # ""
                        THEN <<Line("created", "none",
                                    <<"Created session ", SuiteName(suite), " (",
                                      SuiteSessionId(suite), ")">>)>>
                        ELSE <<>>
       ELSE /\ trace' = <<>>
            /\ UNCHANGED sessions
    /\ last' = Step("suiteStart", suite, "none")
    /\ UNCHANGED <<mode, filename, hasErrors, errors, collector, disk, suites,
                   failLog, accepted, folded, disk0, runEnds>>

suiteStart(suite) ==
    /\ IF SuiteParent(suite) = NoParent
       THEN /\ sessions' = [k \in (DOMAIN sessions) \cup {SuiteSessionId(suite)} |->
                               IF k = SuiteSessionId(suite)
                               THEN [suite |-> suite, coverage |-> FALSE]
                               ELSE sessions[k]]
            /\ trace' = IF SuiteSessionId(suite) # ""
                        THEN <<Line("created", "none",
                                    <<"Created session ", SuiteName(suite), " (",
                                      SuiteSessionId(suite), ")">>)>>
                        ELSE <<>>
       ELSE /\ trace' = <<>>
            /\ UNCHANGED sessions
    /\ last' = Step("suiteStart", suite, "none")
    /\ UNCHANGED <<mode, filename, hasErrors, errors, collector, disk, suites,
                   failLog, accepted, folded, disk0, runEnds>>

\* suiteEnd without the mode test of its early return
suiteEndInEveryMode(suite, tree) ==
    /\ IF SuiteParent(suite) # NoParent \/ SuiteSessionId(suite) = ""
       THEN trace' = <<>>
       ELSE trace' = <<Line("blank", "none", <<>>),
                       SummaryLine(SuiteName(suite), suites[suite], hasError(tree))>>
    /\ last' = Step("suiteEnd", [suite |-> suite, tree |-> tree], "none")
    /\ UNCHANGED <<mode, filename, hasErrors, sessions, errors, collector, disk,
                   suites, failLog, accepted, folded, disk0, runEnds>>

suiteEnd(suite, tree) ==
    /\ IF SuiteParent(suite) # NoParent \/ mode = "client" \/ SuiteSessionId(suite) = ""
       THEN trace' = <<>>
       ELSE trace' = <<Line("blank", "none", <<>>),
                       SummaryLine(SuiteName(suite), suites[suite], hasError(tree))>>
    /\ last' = Step("suiteEnd", [suite |-> suite, tree |-> tree], "none")
    /\ UNCHANGED <<mode, filename, hasErrors, sessions, errors, collector, disk,
                   suites, failLog, accepted, folded, disk0, runEnds>>

testFail(test) ==
    /\ Len(failLog) < MaxFails
    /\ errors' = LedgerPush(errors, test.sessionId, LedgerEntry(test))
    /\ trace' = <<Line("glyph", "red", <<"x">>)>>
    /\ failLog' = Append(failLog, test)
    /\ last' = Step("testFail", test, "none")
    /\ UNCHANGED <<mode, filename, hasErrors, sessions, collector, disk, suites,
                   accepted, folded, disk0, runEnds>>

\* testPass that counts the test in every registered session's root suite
testPassCounting ==
    /\ trace' = <<Line("glyph", "green", <<"v">>)>>
    /\ suites' = [s \in DOMAIN suites |->
                     IF s \in {sessions[k].suite : k \in DOMAIN sessions}
                     THEN [suites[s] EXCEPT !.numTests = (@ + 1) % 16]
                     ELSE suites[s]]
    /\ last' = Step("testPass", "", "none")
    /\ UNCHANGED <<mode, filename, hasErrors, sessions, errors, collector, disk,
                   failLog, accepted, folded, disk0, runEnds>>

testPass ==
    /\ trace' = <<Line("glyph", "green", <<"v">>)>>
    /\ last' = Step("testPass", "", "none")
    /\ UNCHANGED <<mode, filename, hasErrors, sessions, errors, collector, disk,
                   suites, failLog, accepted, folded, disk0, runEnds>>

testSkip ==
    /\ trace' = <<Line("glyph", "grey", <<"~">>)>>
    /\ last' = Step("testSkip", "", "none")
    /\ UNCHANGED <<mode, filename, hasErrors, sessions, errors, collector, disk,
                   suites, failLog, accepted, folded, disk0, runEnds>>

(***************************************************************************)
(* The host engine: it owns the suite objects and recomputes their        *)
(* counters as tests run, and the inherited fatalError handler sets       *)
(* hasErrors.                                                              *)
(***************************************************************************)
hostCounters(suite, c) ==
    /\ suites[suite] # c
    /\ suites' = [suites EXCEPT ![suite] = c]
    /\ trace' = <<>>
    /\ last' = Step("host", suite, "none")
    /\ UNCHANGED <<mode, filename, hasErrors, sessions, errors, collector, disk,
                   failLog, accepted, folded, disk0, runEnds>>

fatalError ==
    /\ ~hasErrors
    /\ hasErrors' = TRUE
    /\ trace' = <<>>
    /\ last' = Step("fatalError", "", "none")
    /\ UNCHANGED <<mode, filename, sessions, errors, collector, disk, suites,
                   failLog, accepted, folded, disk0, runEnds>>

(***************************************************************************)
(* Specifications.  Each delivers the events in any order and draws the   *)
(* events' arguments from the sets its claims are about.                   *)
(***************************************************************************)
PlainTree == SuiteNode(FALSE, <<TestNode(FALSE)>>)
OneFailedTest == [sessionId |-> "A", id |-> "t1", timeElapsed |-> 1500,
                  error |-> [name |-> "AssertionError", message |-> "boom"]]

\* Sessions, counters and the run-end totals.
Init == InitWith(Modes, {DEFAULT_COVERAGE_FILENAME}, {AbsentFile}, {AbsentFile})
Next ==
    /\ UNCHANGED hist
    /\ \/ coverage("A", "X" :> 3)
       \/ runEnd
       \/ \E suite \in {"sA", "sA2", "sB", "nA"} : suiteStart(suite)
       \/ suiteEnd("sA", PlainTree)
       \/ (failLog = <<>> /\ testFail(OneFailedTest))
       \/ testPass
       \/ testSkip
       \/ hostCounters("sA", TenOneZero)
       \/ \E suite \in {"sA2", "sB"} : hostCounters(suite, FiveZeroTwo)
       \/ fatalError
Spec == Init /\ [][Next]_vars

\* The error ledger and the order of runEnd's output.
LedgerTests == {t \in FailedTests : t.sessionId = "A" \/ t.id = "t1"}
InitLedger ==
    InitWith({"runner"}, Filenames, {AbsentFile, ReportFile(<<(<<"X", 5>>)>>)}, {AbsentFile})
NextLedger ==
    /\ UNCHANGED hist
    /\ \/ runEnd
       \/ \E suite \in {"sA", "sB"} : suiteStart(suite)
       \/ suiteEnd("sA", PlainTree)
       \/ \E test \in LedgerTests : testFail(test)
       \/ testPass
       \/ testSkip
       \/ hostCounters("sA", TenOneZero)
SpecLedger == InitLedger /\ [][NextLedger]_vars

\* suiteEnd over every suite object and every tree.
InitSuiteEnd == InitWith(Modes, {DEFAULT_COVERAGE_FILENAME}, {AbsentFile}, {AbsentFile})
NextSuiteEnd ==
    /\ UNCHANGED hist
    /\ \/ runEnd
       \/ \E suite \in {"sA", "nA"} : suiteStart(suite)
       \/ \E suite \in SuiteIds, tree \in SuiteTrees : suiteEnd(suite, tree)
       \/ (failLog = <<>> /\ testFail(OneFailedTest))
       \/ testPass
       \/ testSkip
       \/ \E suite \in {"s0", "sA"}, c \in CounterValues : hostCounters(suite, c)
SpecSuiteEnd == InitSuiteEnd /\ [][NextSuiteEnd]_vars

\* Coverage delivery and the coverage report, over every configuration and
\* every state of the file system.
InitCoverage == InitWith(Modes, Filenames, DefaultFiles0, OtherFiles0)
NextCoverage ==
    /\ UNCHANGED hist
    /\ \/ \E sessionId \in SessionIds, cov \in Snapshots : coverage(sessionId, cov)
       \/ runEnd
       \/ \E suite \in {"s0", "sA", "nA"} : suiteStart(suite)
       \/ \E suite \in {"s0", "sA", "nA"} : suiteEnd(suite, PlainTree)
       \/ (failLog = <<>> /\ testFail(OneFailedTest))
       \/ testPass
       \/ testSkip
SpecCoverage == InitCoverage /\ [][NextCoverage]_vars

\* Sessions that end and sessions that never do, with the counters each
\* root suite had when it started on record.
InitActive == InitWith({"runner"}, {DEFAULT_COVERAGE_FILENAME}, {AbsentFile}, {AbsentFile})
NextActive ==
    \/ \E suite \in {"sA", "sB"} :
          /\ suiteStart(suite)
          /\ hist' = [hist EXCEPT !.atStart =
                         [k \in (DOMAIN @) \cup {SuiteSessionId(suite)} |->
                             IF k = SuiteSessionId(suite)
                             THEN [suite |-> suite, counters |-> suites[suite]]
                             ELSE @[k]]]
    \/ \E suite \in {"sA", "sB"} :
          /\ SuiteSessionId(suite) \in DOMAIN sessions
          /\ suiteEnd(suite, PlainTree)
          /\ hist' = [hist EXCEPT !.ended = @ \cup {SuiteSessionId(suite)}]
    \/ /\ UNCHANGED hist
       /\ \/ runEnd
          \/ testPass
          \/ testSkip
          \/ (failLog = <<>> /\ testFail(OneFailedTest))
          \/ \E suite \in {"sA", "sB"}, c \in CounterValues : hostCounters(suite, c)
          \/ fatalError
SpecActive == InitActive /\ [][NextActive]_vars

(***************************************************************************)
(* Properties.                                                             *)
(***************************************************************************)
\* The TOTAL line runEnd printed, when the last step was runEnd.
TheTotal == trace[CHOOSE i \in DOMAIN trace : trace[i].kind = "total"]
LastPart(line) == line.parts[Len(line.parts)]

\* The suite objects the registry refers to, and the sum of one of their
\* counters, suite object by suite object.
RegisteredSuites == {sessions[k].suite : k \in DOMAIN sessions}
RECURSIVE SumCounter(_, _)
SumCounter(field, ss) ==
    IF ss = {} THEN 0
    ELSE LET s == CHOOSE x \in ss : TRUE
         IN suites[s][field] + SumCounter(field, ss \ {s})

\* C1: after runEnd the TOTAL line reports as platforms the number of
\* registered session identifiers, and as failed/total/skipped the sums of
\* the registered root suites' numFailedTests/numTests/numSkippedTests as
\* they are when runEnd runs; the skipped part is printed when its sum is
\* not zero.
C1_TotalsAreSumsOverSessions ==
    last.op = "runEnd" =>
        LET parts == TheTotal.parts
            skipped == SumCounter("numSkippedTests", RegisteredSuites)
        IN /\ Cardinality({i \in DOMAIN trace : trace[i].kind = "total"}) = 1
           /\ parts[3] = ToString(Cardinality(DOMAIN sessions))
           /\ parts[5] = ToString(SumCounter("numFailedTests", RegisteredSuites))
           /\ parts[7] = ToString(SumCounter("numTests", RegisteredSuites))
           /\ IF skipped # 0
              THEN /\ Len(parts) >= 11
                   /\ parts[10] = ToString(skipped)
                   /\ parts[11] = " skipped)"
              ELSE \A i \in DOMAIN parts : parts[i] # " skipped)"

\* Sessions A (10 tests, 1 failed, 0 skipped) and B (5 tests, 0 failed, 2
\* skipped): "tested 2 platforms, 1/15 failed (2 skipped)".
C1_Witness ==
    /\ last.op = "runEnd"
    /\ DOMAIN sessions = {"A", "B"}
    /\ suites[sessions["A"].suite] = TenOneZero
    /\ suites[sessions["B"].suite] = FiveZeroTwo
    /\ TheTotal.parts = <<"TOTAL", ": tested ", "2", " platforms, ", "1", "/", "15",
                          " failed", " (", "2", " skipped)">>

\* C6 as claimed: whenever hasErrors is set, the TOTAL line ends with the
\* fatal error suffix, whatever the summed failed count.
C6_SuffixWheneverHasErrors ==
    (last.op = "runEnd" /\ hasErrors) => LastPart(TheTotal) = FatalSuffix

\* C6 amended: the TOTAL line ends with the fatal error suffix exactly when
\* hasErrors is set and the summed failed count is zero.
C6_SuffixIffHasErrorsAndNoFailures ==
    last.op = "runEnd" =>
        (LastPart(TheTotal) = FatalSuffix
            <=> (hasErrors /\ SumCounter("numFailedTests", RegisteredSuites) = 0))

\* runEnd with hasErrors set, sessions registered and no failed test.
C6_Witness ==
    /\ last.op = "runEnd"
    /\ hasErrors
    /\ DOMAIN sessions = {"A", "B"}
    /\ SumCounter("numFailedTests", RegisteredSuites) = 0
    /\ SumCounter("numTests", RegisteredSuites) > 0
    /\ LastPart(TheTotal) = FatalSuffix

\* The entries testFail is to have stored for a session: one per testFail
\* event delivered with that sessionId, in delivery order.
DeliveredFor(sid) == SelectSeq(failLog, LAMBDA t : t.sessionId = sid)
EntriesFor(sid) ==
    [i \in DOMAIN DeliveredFor(sid) |->
        [id |-> DeliveredFor(sid)[i].id,
         timeElapsed |-> DeliveredFor(sid)[i].timeElapsed,
         error |-> getErrorMessage(DeliveredFor(sid)[i].error)]]

\* C5: in every state, every session's list in the error ledger is the
\* sequence of the testFail events delivered with that sessionId, in
\* delivery order, one entry each (none removed, reordered or merged), and
\* the ledger has one key per session that had a failure.
C5_LedgerIsDeliveredFailures ==
    /\ \A sid \in SessionIds : LedgerList(errors, sid) = EntriesFor(sid)
    /\ LedgerKeys(errors) = {failLog[i].sessionId : i \in DOMAIN failLog}
    /\ \A i, j \in DOMAIN errors : errors[i].key = errors[j].key => i = j

\* The same test id failed twice in one session: two entries.
C5_Witness ==
    /\ last.op = "testFail"
    /\ Len(LedgerList(errors, "A")) = 2
    /\ LedgerList(errors, "A")[1].id = LedgerList(errors, "A")[2].id

\* The positions of runEnd's output.
TotalAt == CHOOSE i \in DOMAIN trace : trace[i].kind = "total"
ErrorAt == {i \in DOMAIN trace : trace[i].kind = "error"}
IoKinds == {"access", "read", "write"}
\* The error lines printed for one session, in print order.
PrintedFor(sid) ==
    SelectSeq(trace, LAMBDA l : l.kind = "error" /\ l.sid = sid)

\* C10: the output of one runEnd is, in this order: a blank line; the
\* failure header if the summed failed count is positive; the ledger's
\* entries, session by session, each session's in insertion order; the
\* TOTAL line; and only then the file system calls of the reconciliation
\* and the report write, the write last and only if nothing was thrown.
\* The TOTAL line is there also when finalization throws.
C10_RunEndOutputOrder ==
    last.op = "runEnd" =>
        /\ Cardinality({i \in DOMAIN trace : trace[i].kind = "total"}) = 1
        /\ trace[1].kind = "blank"
        /\ \A i \in DOMAIN trace : trace[i].kind = "blank" => i = 1
        /\ \A i \in DOMAIN trace : trace[i].kind = "header" => i = 2
        /\ (trace[2].kind = "header"
               <=> SumCounter("numFailedTests", RegisteredSuites) > 0)
        /\ \A i \in ErrorAt : 1 < i /\ i < TotalAt /\ trace[i - 1].kind # "total"
        /\ \A i \in DOMAIN trace :
              /\ i < TotalAt => trace[i].kind \in {"blank", "header", "error"}
              /\ i > TotalAt => trace[i].kind \in IoKinds
        /\ \A i, j, k \in ErrorAt :
              (i < j /\ j < k /\ trace[i].sid = trace[k].sid)
                  => trace[j].sid = trace[i].sid
        /\ \A sid \in SessionIds :
              /\ Len(PrintedFor(sid)) = Len(LedgerList(errors, sid))
              /\ \A n \in DOMAIN PrintedFor(sid) :
                    /\ PrintedFor(sid)[n].parts[2] = LedgerList(errors, sid)[n].id
                    /\ PrintedFor(sid)[n].parts[4]
                           = Seconds(LedgerList(errors, sid)[n].timeElapsed)
                    /\ PrintedFor(sid)[n].parts[6] = LedgerList(errors, sid)[n].error
        /\ \A i \in DOMAIN trace :
              trace[i].kind = "write" => (i = Len(trace) /\ last.thrown = "none")
        /\ last.thrown = "none" => trace[Len(trace)].kind = "write"

\* runEnd whose finalization threw, after printing the header, the entries
\* of two sessions (failures delivered for A, B, A: printed A, A, B) and the
\* TOTAL line.
C10_Witness ==
    /\ last.op = "runEnd"
    /\ last.thrown = "ENOENT"
    /\ trace[2].kind = "header"
    /\ Len(failLog) = 3
    /\ failLog[1].sessionId = "A" /\ failLog[2].sessionId = "B"
    /\ failLog[3].sessionId = "A" /\ failLog[3].id = "t2" /\ failLog[1].id = "t1"
    /\ trace[3].sid = "A" /\ trace[3].parts[2] = "t1"
    /\ trace[4].sid = "A" /\ trace[4].parts[2] = "t2"
    /\ trace[5].sid = "B"
    /\ TotalAt = 6
    /\ trace[Len(trace)].kind = "read"

\* The nodes of a suite tree: the suite, its tests and nested suites, at
\* any depth.
RECURSIVE Nodes(_)
Nodes(node) == {node} \cup UNION {Nodes(node.tests[i]) : i \in DOMAIN node.tests}

\* suiteEnd was the last step and printed its summary: the suite is a root
\* suite with a session identifier, outside client mode.
SummaryPrinted ==
    /\ last.op = "suiteEnd"
    /\ SuiteParent(last.arg.suite) = NoParent
    /\ SuiteSessionId(last.arg.suite) # ""
    /\ mode # "client"
TheSummary == trace[2]

\* C7 as claimed: the summary line ends with the fatal error suffix exactly
\* when the suite or any descendant, nested suite or test, carries an error.
C7_SuffixIffAnyNodeError ==
    SummaryPrinted =>
        (LastPart(TheSummary) = FatalSuffix
            <=> \E n \in Nodes(last.arg.tree) : n.error)

\* C7 amended: the summary line ends with the fatal error suffix exactly
\* when the suite or a nested suite at any depth carries an error; an error
\* carried by a test does not count.
C7_SuffixIffAnySuiteError ==
    SummaryPrinted =>
        /\ Len(trace) = 2
        /\ TheSummary.kind = "summary"
        /\ LastPart(TheSummary) = FatalSuffix
              <=> \E n \in Nodes(last.arg.tree) : n.hasTests /\ n.error

\* A root suite with failed count 0 and no error of its own, whose nested
\* suite carries an error: reported with the suffix.
C7_Witness ==
    /\ SummaryPrinted
    /\ suites[last.arg.suite].numFailedTests = 0
    /\ suites[last.arg.suite].numTests > 0
    /\ last.arg.tree = SuiteNode(FALSE, <<TestNode(FALSE),
                                          SuiteNode(TRUE, <<TestNode(FALSE)>>)>>)
    /\ LastPart(TheSummary) = FatalSuffix

\* The per-file sum of a bag of coverage objects: each file's count is the
\* sum, over the objects holding the file, of the object's count times the
\* number of its copies in the bag.
RECURSIVE FileCount(_, _, _)
FileCount(b, f, objs) ==
    IF objs = {} THEN 0
    ELSE LET x == CHOOSE o \in objs : TRUE
         IN (IF f \in DOMAIN x THEN CopiesIn(x, b) * x[f] ELSE 0)
            + FileCount(b, f, objs \ {x})
SumOfBag(b) ==
    [f \in UNION {DOMAIN x : x \in BagToSet(b)} |-> FileCount(b, f, BagToSet(b))]

\* The artifact at the default path before the run, if readable and well
\* formed.
DefaultWasReadable ==
    disk0[DEFAULT_COVERAGE_FILENAME].exists /\ disk0[DEFAULT_COVERAGE_FILENAME].readable
PriorArtifact ==
    IF DefaultWasReadable /\ disk0[DEFAULT_COVERAGE_FILENAME].wellFormed
    THEN SetToBag({ParseReport(disk0[DEFAULT_COVERAGE_FILENAME].entries)})
    ELSE EmptyBag

\* C2: after the run's runEnd has written the report, for every configured
\* path, the report at the configured path is the per-file sum of the
\* artifact that was readable at the default path before the run (if any)
\* and the snapshots coverage() merged: nothing else, and nothing missing.
C2_ReportIsPriorPlusAccepted ==
    (last.op = "runEnd" /\ runEnds = 1 /\ last.thrown = "none")
        => /\ disk[filename].exists
           /\ disk[filename].wellFormed
           /\ ParseReport(disk[filename].entries) = SumOfBag(accepted (+) PriorArtifact)

\* C3: runEnd never throws because a coverage file is absent or unreadable,
\* and then the report is written.
C3_NoErrorForMissingFile ==
    last.op = "runEnd" =>
        /\ last.thrown \notin {"ENOENT", "EACCES"}
        /\ last.thrown = "none" => trace[Len(trace)].kind = "write"

\* C4: a coverage() call with an empty sessionId outside client mode throws
\* nothing and changes neither the collector, nor any session (its coverage
\* flag included), nor the registry's keys, nor the ledger.
C4_EmptyIdOutsideClientIsNoOp ==
    [][(/\ last'.op = "coverage"
        /\ last'.arg.sessionId = ""
        /\ mode # "client")
          => /\ last'.thrown = "none"
             /\ UNCHANGED <<collector, sessions, errors, accepted>>]_vars

\* Such a call delivered while a session is registered under the empty
\* identifier and the collector and the ledger hold something.
C4_Witness ==
    /\ last.op = "coverage"
    /\ last.arg.sessionId = ""
    /\ mode = "runner"
    /\ "" \in DOMAIN sessions
    /\ ~sessions[""].coverage
    /\ collector # NoCoverage
    /\ errors # <<>>

\* C8: a runEnd that directly follows a runEnd that threw nothing throws
\* nothing and leaves the report at the configured path as it was.
C8_SecondRunEndKeepsReport ==
    [][(/\ last.op = "runEnd"
        /\ last.thrown = "none"
        /\ last'.op = "runEnd"
        /\ runEnds' = runEnds + 1)
          => /\ last'.thrown = "none"
             /\ disk'[filename].entries = disk[filename].entries]_vars

\* C9 as claimed: the collector always is the per-file sum of the snapshots
\* coverage() merged.
C9_CollectorIsSumOfAccepted ==
    collector = SumOfBag(accepted)

\* C9 amended: the collector always is the per-file sum of the snapshots
\* coverage() merged and of the file contents runEnd merged, every copy
\* counted.
C9_CollectorIsSumOfMerged ==
    collector = SumOfBag(accepted (+) folded)

\* The same snapshot merged twice, delivered by two sessions: counted twice.
C9_Witness ==
    /\ last.op = "coverage"
    /\ BagIn("X" :> 3, accepted)
    /\ CopiesIn("X" :> 3, accepted) = 2
    /\ folded = EmptyBag
    /\ DOMAIN sessions = {"", "A"}
    /\ sessions[""].coverage /\ sessions["A"].coverage
    /\ collector = ("X" :> 6)

\* C11: suiteEnd prints a summary line exactly when the suite has no parent,
\* the mode is not 'client' and the suite's session id is not empty, and
\* prints nothing otherwise; in every case it leaves the session registry,
\* the error ledger, the coverage collector, the suite counters and the
\* file system as they were.
C11_SuiteEndRendersOnlyRootSessionSuites ==
    [][(last'.op = "suiteEnd") =>
          /\ UNCHANGED <<sessions, errors, collector, suites, disk, hasErrors>>
          /\ IF /\ SuiteParent(last'.arg.suite) = NoParent
                /\ mode # "client"
                /\ SuiteSessionId(last'.arg.suite) # ""
             THEN /\ Len(trace') = 2
                  /\ trace'[2].kind = "summary"
                  /\ trace'[2].parts[1] = SuiteName(last'.arg.suite)
             ELSE trace' = <<>>]_vars
\* a nested suite of a registered session ends in runner mode, with a
\* failure on the ledger and coverage in the collector: nothing is printed
C11_Witness ==
    /\ last.op = "suiteEnd"
    /\ last.arg.suite = "nA"
    /\ mode = "runner"
    /\ "A" \in DOMAIN sessions
    /\ errors # <<>>
    /\ collector # NoCoverage
    /\ trace = <<>>

\* the count a coverage object holds for a file, 0 when it has none
Hits(cov, f) == IF f \in DOMAIN cov THEN cov[f] ELSE 0

\* C12: when coverage() is accepted (client mode, or a non-empty session id)
\* for a registered session, it raises nothing, that session's coverage flag
\* is set, every file count of the snapshot is added to the collector once,
\* and every other session's entry, that session's suite and the set of
\* registered sessions stay as they were.
C12_AcceptedCoverageFlagsAndMergesOnce ==
    [][(/\ last'.op = "coverage"
        /\ mode = "client" \/ last'.arg.sessionId # ""
        /\ last'.arg.sessionId \in DOMAIN sessions) =>
          /\ last'.thrown = "none"
          /\ DOMAIN sessions' = DOMAIN sessions
          /\ sessions'[last'.arg.sessionId].coverage
          /\ sessions'[last'.arg.sessionId].suite = sessions[last'.arg.sessionId].suite
          /\ \A k \in DOMAIN sessions \ {last'.arg.sessionId} : sessions'[k] = sessions[k]
          /\ \A f \in Files :
                Hits(collector', f)
                  = Hits(collector, f) + Hits(last'.arg.coverage, f)]_vars
\* client mode, sessions '' and A registered: a snapshot for '' has been
\* merged into a collector that already held one, and A's flag is still unset
C12_Witness ==
    /\ last.op = "coverage"
    /\ last.arg.sessionId = ""
    /\ mode = "client"
    /\ DOMAIN sessions = {"", "A"}
    /\ sessions[""].coverage
    /\ ~sessions["A"].coverage
    /\ BagCardinality(accepted) = 2
    /\ Hits(collector, "X") = 4

\* C13: the summary line of suiteEnd is green exactly when the suite's
\* failed count is 0 and neither the suite nor a nested suite carries an
\* error; it is red when the failed count is positive or an error is
\* present, on the root suite itself or on a descendant suite.
C13_SummaryGreenIffNoFailureAndNoError ==
    SummaryPrinted =>
        /\ TheSummary.color \in {"red", "green"}
        /\ TheSummary.color = "green"
              <=> /\ suites[last.arg.suite].numFailedTests = 0
                  /\ ~\E n \in Nodes(last.arg.tree) : n.hasTests /\ n.error

\* C14: the TOTAL line of runEnd is red exactly when the failed count summed
\* over the registered sessions is positive or hasErrors is set, and green
\* otherwise.
C14_TotalRedIffFailuresOrFatal ==
    last.op = "runEnd" =>
        /\ TheTotal.color \in {"red", "green"}
        /\ TheTotal.color = "red"
              <=> (SumCounter("numFailedTests", RegisteredSuites) > 0 \/ hasErrors)
\* hasErrors set, two sessions registered, no failed test: the line is red
C14_Witness ==
    /\ last.op = "runEnd"
    /\ hasErrors
    /\ DOMAIN sessions = {"A", "B"}
    /\ SumCounter("numFailedTests", RegisteredSuites) = 0
    /\ SumCounter("numTests", RegisteredSuites) > 0
    /\ TheTotal.color = "red"

\* C15: a coverage() call that passes the acceptance test (client mode, or a
\* non-empty session id) but names a session that is not registered raises
\* an error and leaves the collector, the registry and the ledger unchanged.
C15_UnregisteredCoverageRaisesAndKeepsState ==
    [][(/\ last'.op = "coverage"
        /\ mode = "client" \/ last'.arg.sessionId # ""
        /\ last'.arg.sessionId \notin DOMAIN sessions) =>
          /\ last'.thrown # "none"
          /\ UNCHANGED <<collector, sessions, errors, disk>>]_vars
\* session A is registered and has coverage merged, a failure is on the
\* ledger, and a snapshot for the unregistered session B has just been refused
C15_Witness ==
    /\ last.op = "coverage"
    /\ last.arg.sessionId = "B"
    /\ last.thrown = "TypeError"
    /\ DOMAIN sessions = {"A"}
    /\ sessions["A"].coverage
    /\ collector = ("X" :> 3)
    /\ errors # <<>>

\* C16: when the prior coverage artifact (the file at the default path) is
\* present and readable but not valid JSON, runEnd raises a parse error after
\* it printed the failure list and the TOTAL line, and writes no report, so
\* the file system is as it was; a parse error is the only error runEnd
\* raises, and testFail, testPass, testSkip and a rejected coverage call
\* raise nothing.
C16_MalformedArtifactAbortsRunEnd ==
    /\ (/\ last.op = "runEnd"
        /\ runEnds = 1
        /\ disk0[DEFAULT_COVERAGE_FILENAME] = MalformedFile) =>
           /\ last.thrown = "SyntaxError"
           /\ disk = disk0
           /\ \E i \in DOMAIN trace :
                 /\ trace[i].kind = "total"
                 /\ \A j \in DOMAIN trace :
                       trace[j].kind \in IoKinds <=> j > i
           /\ \A i \in DOMAIN trace : trace[i].kind # "write"
    /\ (last.op = "runEnd" /\ last.thrown # "none") => last.thrown = "SyntaxError"
    /\ last.op \in {"testFail", "testPass", "testSkip"} => last.thrown = "none"
    /\ (/\ last.op = "coverage"
        /\ mode # "client"
        /\ last.arg.sessionId = "") => last.thrown = "none"

\* C17: suiteStart raises nothing; for a suite without a parent it makes the
\* registry entry of the suite's session id a fresh one holding that suite
\* with the coverage flag unset, whether or not the id was registered (so
\* the number of sessions does not change on re-registration), and leaves
\* every other entry, the collector, the ledger and the suite counters as
\* they were; for a suite with a parent it changes no state. No other
\* handler changes which suite an id is registered with, and runEnd's totals
\* are those of the suites registered when it runs.
C17_SuiteStartOverwritesTheEntry ==
    [][/\ (last'.op = "suiteStart") =>
             /\ last'.thrown = "none"
             /\ UNCHANGED <<collector, errors, suites, disk, hasErrors, accepted>>
             /\ IF SuiteParent(last'.arg) = NoParent
                THEN /\ DOMAIN sessions' = DOMAIN sessions \cup {SuiteSessionId(last'.arg)}
                     /\ sessions'[SuiteSessionId(last'.arg)]
                           = [suite |-> last'.arg, coverage |-> FALSE]
                     /\ \A k \in DOMAIN sessions \ {SuiteSessionId(last'.arg)} :
                           sessions'[k] = sessions[k]
                ELSE UNCHANGED sessions
       /\ (last'.op # "suiteStart") =>
             /\ DOMAIN sessions' = DOMAIN sessions
             /\ \A k \in DOMAIN sessions : sessions'[k].suite = sessions[k].suite
       /\ (last'.op = "runEnd") =>
             /\ TheTotal'.parts[3] = ToString(Cardinality(DOMAIN sessions))
             /\ TheTotal'.parts[7]
                   = ToString(SumCounter("numTests",
                                         {sessions[k].suite : k \in DOMAIN sessions}))]_vars
\* session A, registered with sA (10 tests), had coverage merged and was
\* registered again with sA2 (5 tests): one session, flag unset, the merged
\* snapshot still in the collector
C17_Witness ==
    /\ last.op = "suiteStart"
    /\ last.arg = "sA2"
    /\ sessions = ("A" :> [suite |-> "sA2", coverage |-> FALSE])
    /\ BagCardinality(accepted) = 1
    /\ collector = ("X" :> 3)
    /\ suites["sA"] = TenOneZero
    /\ suites["sA2"] = FiveZeroTwo

\* the sessions whose root suite has started, and those suites
Started == DOMAIN hist.atStart
StartedSuites == {hist.atStart[k].suite : k \in Started}

\* C18: at runEnd every session whose root suite has started is counted as
\* one platform, whether or not its suiteEnd was delivered, and the totals
\* are the sums of the counters those suite objects hold when runEnd runs,
\* whatever they held at suiteStart and whichever other sessions have ended.
C18_StartedSessionsCountWithCurrentCounters ==
    last.op = "runEnd" =>
        /\ TheTotal.parts[3] = ToString(Cardinality(Started))
        /\ TheTotal.parts[5] = ToString(SumCounter("numFailedTests", StartedSuites))
        /\ TheTotal.parts[7] = ToString(SumCounter("numTests", StartedSuites))
        /\ IF SumCounter("numSkippedTests", StartedSuites) = 0
           THEN \A i \in DOMAIN TheTotal.parts : TheTotal.parts[i] # " skipped)"
           ELSE /\ Len(TheTotal.parts) >= 11
                /\ TheTotal.parts[10] = ToString(SumCounter("numSkippedTests", StartedSuites))
\* session A ended with 10/1/0; session B started with all counters 0, has
\* run 5 tests since and never ended: runEnd reports 2 platforms, 1/15 failed
C18_Witness ==
    /\ last.op = "runEnd"
    /\ Started = {"A", "B"}
    /\ hist.ended = {"A"}
    /\ hist.atStart["B"].counters = ZeroCounters
    /\ suites["sA"] = TenOneZero
    /\ suites["sB"] = FiveZeroTwo
    /\ TheTotal.parts[3] = "2"
    /\ TheTotal.parts[5] = "1"
    /\ TheTotal.parts[7] = "15"

\* C19: runEnd leaves the session registry, the error ledger and the suite
\* counters exactly as they were, and each invocation prints every entry of
\* every session's list in the ledger once, also for a session id no
\* suiteStart registered and also when the summed failed count is 0; an
\* entry is printed with its test id, its time in seconds and its message.
C19_RunEndReadsRegistryAndLedger ==
    [][(last'.op = "runEnd") =>
          /\ UNCHANGED <<sessions, errors, suites, hasErrors, failLog>>
          /\ Cardinality({i \in DOMAIN trace' : trace'[i].kind = "error"})
                = Len(failLog)
          /\ \A sid \in SessionIds :
                /\ Len(PrintedFor(sid)') = Len(LedgerList(errors, sid))
                /\ \A n \in DOMAIN LedgerList(errors, sid) :
                      /\ PrintedFor(sid)'[n].parts[2] = LedgerList(errors, sid)[n].id
                      /\ PrintedFor(sid)'[n].parts[4]
                            = Seconds(LedgerList(errors, sid)[n].timeElapsed)
                      /\ PrintedFor(sid)'[n].parts[6] = LedgerList(errors, sid)[n].error]_vars
\* the second runEnd of a run in which only session A was registered and no
\* test counted as failed, with two failures on the ledger under B: both are
\* printed again, without the header
C19_Witness ==
    /\ last.op = "runEnd"
    /\ runEnds = 2
    /\ DOMAIN sessions = {"A"}
    /\ SumCounter("numFailedTests", RegisteredSuites) = 0
    /\ Len(LedgerList(errors, "B")) = 2
    /\ Len(PrintedFor("B")) = 2
    /\ trace[2].kind = "error"

\* C20: testPass and testSkip print one glyph and leave the session
\* registry, the suite counters, the error ledger, the collector, hasErrors
\* and the file system unchanged; testFail prints one glyph and changes
\* only the ledger, where the list of the failing test's session gets one
\* more entry at its end and every other session's list stays as it was.
C20_TestEventsTouchOnlyTheLedger ==
    [][/\ (last'.op \in {"testPass", "testSkip"}) =>
             /\ UNCHANGED <<sessions, suites, errors, collector, hasErrors, disk>>
             /\ Len(trace') = 1
             /\ trace'[1].kind = "glyph"
       /\ (last'.op = "testFail") =>
             /\ UNCHANGED <<sessions, suites, collector, hasErrors, disk>>
             /\ Len(trace') = 1
             /\ trace'[1].kind = "glyph"
             /\ LedgerList(errors', last'.arg.sessionId)
                   = Append(LedgerList(errors, last'.arg.sessionId),
                            [id |-> last'.arg.id,
                             timeElapsed |-> last'.arg.timeElapsed,
                             error |-> getErrorMessage(last'.arg.error)])
             /\ \A sid \in SessionIds \ {last'.arg.sessionId} :
                   LedgerList(errors', sid) = LedgerList(errors, sid)
             /\ LedgerKeys(errors') = LedgerKeys(errors) \cup {last'.arg.sessionId}]_vars
\* sessions A and B are registered, A's suite has counted its tests, a
\* runEnd has folded a prior report into the collector, and a second failure
\* of session A has been appended behind the first, B's list untouched
C20_Witness ==
    /\ last.op = "testFail"
    /\ last.arg.sessionId = "A"
    /\ DOMAIN sessions = {"A", "B"}
    /\ suites["sA"] = TenOneZero
    /\ collector # NoCoverage
    /\ Len(LedgerList(errors, "A")) = 2
    /\ Len(LedgerList(errors, "B")) = 1

====
